---------------------------- MODULE Spec2Model ----------------------------
(***************************************************************************)
(* A model of airfilter's command-execution and printing layer             *)
(* (src/src/airfilter/io.py): the Shims test double, the PrintContext      *)
(* indent counter and its printers, Section, and run().                    *)
(*                                                                         *)
(* Text is a sequence of one-character strings.  A regular expression is   *)
(* a literal, so that re.search is substring search.                       *)
(***************************************************************************)
EXTENDS Naturals, Integers, Sequences, FiniteSets, TLC

VARIABLES
    enabled,    \* Shims.enabled
    hasShims,   \* whether the class attribute Shims.shims exists yet
    shims,      \* Shims.shims, a deque: index 1 is its left end
    log,        \* Shims.log
    indent,     \* the class attribute PrintContext.indent
    own,        \* per printer instance: its own `indent` attribute, or Unset
    verbose,    \* PrintContext.cli_args.verbose
    stack,      \* the Sections entered and not yet left, innermost first
    opts,       \* the keyword arguments of the run() calls of this behaviour
    last,       \* what the last operation did and gave back
    regs,       \* history: the shims registered since the last reset, in order
    pops,       \* history: the Shims.run calls since the last reset that popped
    misses,     \* history: those that found no queue, or an empty one
    hits        \* history: the commands of those that matched, in call order

vars == <<enabled, hasShims, shims, log, indent, own, verbose, stack, opts,
          last, regs, pops, misses, hits>>

\* ------------------------------------------------------------------ bounds

\* shims registered between two resets, by a test driving the shim layer
MaxExpect == 3
\* shims registered between two resets, around calls of run()
MaxRunExpect == 1
\* Shims.run calls between two resets that find nothing to pop
MaxMisses == 1
\* nested Sections
MaxDepth == 2
\* the indent a direct increase() may reach
MaxIndent == 9

\* ------------------------------------------------------------------- text

NL == "\n"
SP == " "

Min(S) == CHOOSE x \in S : \A y \in S : x <= y

Max(a, b) == IF a >= b THEN a ELSE b

\* the commands the callers pass
Commands ==
    { <<>>,
      <<"a">>,
      <<"b">>,
      <<NL, SP, SP, "a", NL, SP, SP, SP, "b">> }

RECURSIVE SplitLines(_)
SplitLines(s) ==
    IF \A i \in 1..Len(s) : s[i] # NL
    THEN <<s>>
    ELSE LET k == Min({i \in 1..Len(s) : s[i] = NL})
         IN  <<SubSeq(s, 1, k - 1)>> \o SplitLines(SubSeq(s, k + 1, Len(s)))

RECURSIVE JoinLines(_)
JoinLines(ls) ==
    IF Len(ls) = 1
    THEN ls[1]
    ELSE ls[1] \o <<NL>> \o JoinLines(Tail(ls))

IsBlank(line) == \A i \in 1..Len(line) : line[i] = SP

LeadingSpaces(line) ==
    Min({i \in 0..Len(line) : i = Len(line) \/ line[i + 1] # SP})

\* textwrap.dedent: a whitespace-only line becomes empty, and the leading
\* whitespace common to the other lines is removed from each of them
textwrap_dedent(s) ==
    LET ls == SplitLines(s)
        nb == {i \in 1..Len(ls) : ~IsBlank(ls[i])}
        m  == IF nb = {} THEN 0 ELSE Min({LeadingSpaces(ls[i]) : i \in nb})
    IN  JoinLines([i \in 1..Len(ls) |->
                     IF IsBlank(ls[i]) THEN <<>>
                     ELSE SubSeq(ls[i], m + 1, Len(ls[i]))])

\* re.search with a literal pattern
re_search(pat, s) ==
    \E i \in 1..(Len(s) + 1) :
        /\ i + Len(pat) - 1 <= Len(s)
        /\ SubSeq(s, i, i + Len(pat) - 1) = pat

\* ------------------------------------------------------------------ Shims

\* The shims the tests register.  A handler takes (cmd_str, match=),
\* (cmd_str) or nothing; it returns None or an output text, or raises
\* ErrorReturnCode.
ShimSet ==
    { [cmd_regex |-> <<"a">>, handler |-> [params |-> "none", does |-> "None"]],
      [cmd_regex |-> <<"b">>, handler |-> [params |-> "cmd",  does |-> "text"]],
      [cmd_regex |-> <<"a">>, handler |-> [params |-> "full", does |-> "err"]] }

\* Shim.match: the handler when the pattern is found in the command
Shim_match(shim, cmd_str) == re_search(shim.cmd_regex, cmd_str)

\* the calls Shims.run makes until the handler accepts its arguments
HandlerCalls(h) ==
    CASE h.params = "full" -> 1
      [] h.params = "cmd"  -> 2
      [] OTHER             -> 3

\* a push on the wrong end of the deque
append_right(q, x) == Append(q, x)

\* deque.appendleft
appendleft(q, x) == <<x>> \o q

\* a look at the right end that leaves the item there
pop_rest_peek(q) == q

\* deque.pop on a non-empty deque: what is left of it
pop_rest(q) == SubSeq(q, 1, Len(q) - 1)

\* deque.pop on a non-empty deque: the item at the right end
pop_item(q) == q[Len(q)]

\* an empty deque that hands out None instead of raising
pop_empty_lenient(q, lg) ==
    [raised |-> "none", result |-> "None", shims |-> q, log |-> lg,
     popped |-> FALSE, matched |-> FALSE, calls |-> 0]

\* deque.pop on an empty deque raises IndexError: Shims.run ends there
pop_empty(q, lg) ==
    [raised |-> "IndexError", result |-> "-", shims |-> q, log |-> lg,
     popped |-> FALSE, matched |-> FALSE, calls |-> 0]

\* Shims.expect: a list is pushed shim by shim, one shim alone as it is
RECURSIVE PushAll(_, _)
PushAll(q, it) ==
    IF it = <<>> THEN q ELSE PushAll(appendleft(q, Head(it)), Tail(it))

\* Shims.run on the state (hasShims, shims, log): what it raises or returns,
\* and the queue and the log it leaves
Shims_run(has, q, lg, cmd_str) ==
    IF ~has
    THEN [raised |-> "AttributeError", result |-> "-", shims |-> q, log |-> lg,
          popped |-> FALSE, matched |-> FALSE, calls |-> 0]
    ELSE IF q = <<>>
    THEN pop_empty(q, lg)
    ELSE LET shim == pop_item(q)
             rest == pop_rest(q)
         IN  IF Shim_match(shim, cmd_str)
             THEN [raised  |-> IF shim.handler.does = "err"
                               THEN "ErrorReturnCode" ELSE "none",
                   result  |-> IF shim.handler.does = "err"
                               THEN "-" ELSE shim.handler.does,
                   shims   |-> rest,
                   log     |-> Append(lg, cmd_str),
                   popped  |-> TRUE,
                   matched |-> TRUE,
                   calls   |-> HandlerCalls(shim.handler),
                   shim    |-> shim]
             ELSE [raised  |-> "Mismatch",
                   result  |-> "-",
                   shims   |-> rest,
                   log     |-> lg,
                   popped  |-> TRUE,
                   matched |-> FALSE,
                   calls   |-> 0,
                   shim    |-> shim,
                   message |-> [expected |-> shim.cmd_regex, got |-> cmd_str]]

\* ---------------------------------------------------------- Shims actions

\* the lists of shims a test hands to Shims.expect at once
ShimLists == {<<>>} \cup {<<a, b>> : a \in ShimSet, b \in ShimSet}

\* Shims.enable
Enable(reset) ==
    /\ enabled' = TRUE
    /\ IF reset
       THEN /\ hasShims' = TRUE
            /\ shims' = <<>>
            /\ log' = <<>>
            /\ regs' = <<>>
            /\ pops' = 0
            /\ misses' = 0
            /\ hits' = <<>>
       ELSE UNCHANGED <<hasShims, shims, log, regs, pops, misses, hits>>
    /\ last' = [op |-> "enable", reset |-> reset]
    /\ UNCHANGED <<indent, own, verbose, stack, opts>>

\* Shims.disable
Disable ==
    /\ enabled' = FALSE
    /\ last' = [op |-> "disable"]
    /\ UNCHANGED <<hasShims, shims, log, regs, pops, misses, hits,
                   indent, own, verbose, stack, opts>>

\* Shims.expect with the shims `it` (one shim alone is pushed as a list of one)
Expect(it, single, max) ==
    /\ Len(regs) + Len(it) <= max
    /\ IF hasShims
       THEN /\ shims' = PushAll(shims, it)
            /\ regs' = regs \o it
            /\ last' = [op |-> "expect", raised |-> "none", single |-> single]
       ELSE /\ UNCHANGED <<shims, regs>>
            /\ last' = [op |-> "expect", raised |-> "AttributeError",
                        single |-> single]
    /\ UNCHANGED <<enabled, hasShims, log, pops, misses, hits,
                   indent, own, verbose, stack, opts>>

\* a direct call of Shims.run
ShimsRun(cmd_str) ==
    /\ \E r \in {Shims_run(hasShims, shims, log, cmd_str)} :
           /\ r.popped \/ misses < MaxMisses
           /\ shims' = r.shims
           /\ log' = r.log
           /\ pops' = IF r.popped THEN pops + 1 ELSE pops
           /\ misses' = IF r.popped THEN misses ELSE misses + 1
           /\ hits' = IF r.matched THEN Append(hits, cmd_str) ELSE hits
           /\ last' = [op |-> "Shims.run", cmd |-> cmd_str, r |-> r]
    /\ UNCHANGED <<enabled, hasShims, regs, indent, own, verbose, stack, opts>>

\* ----------------------------------------------------------- PrintContext

Unset == "unset"

\* The printer instances: run()'s and Section's default Verbose(), the printers
\* of IO.info and IO.verbose, no_output's Silent(), and the builtin print of
\* `defaults`.
Printers == {"default", "info", "verbose", "silent", "print"}

\* the class IO.__init__ constructs for the verbose facade's printer
IO_verbose_printer == "Info"

\* the class of each printer instance
PrinterClass(p) ==
    CASE p = "default" -> "Verbose"
      [] p = "info"    -> "Info"
      [] p = "verbose" -> IO_verbose_printer
      [] p = "silent"  -> "Silent"
      [] OTHER         -> "print"

\* the printers that have increase() and decrease(): the PrintContext ones
Indenting(p) == PrinterClass(p) # "print"

\* the default of increase(by=4) and decrease(by=4)
DefaultBy == 4

\* self.indent: the instance's own attribute if it has one, else the class's
SelfIndent(ps, p) == IF ps.own[p] = Unset THEN ps.indent ELSE ps.own[p]

\* PrintContext.increase on ps = [indent, own]
increase(ps, p, by) == [ps EXCEPT !.indent = ps.indent + by]

\* a decrease that does not stop at zero
decrease_unclamped(ps, p, by) ==
    [ps EXCEPT !.indent = SelfIndent(ps, p) - by]

\* PrintContext.decrease
decrease(ps, p, by) == [ps EXCEPT !.indent = Max(0, SelfIndent(ps, p) - by)]

\* One call of printer p: the lines it writes to stderr and to stdout.
PrinterCall(p, v) ==
    CASE PrinterClass(p) = "Info"    -> [err |-> 1, out |-> 0]
      [] PrinterClass(p) = "Verbose" -> [err |-> IF v THEN 1 ELSE 0, out |-> 0]
      [] PrinterClass(p) = "Silent"  -> [err |-> 0, out |-> 0]
      [] OTHER                       -> [err |-> 0, out |-> 1]

\* Section.__enter__: the header, if any, is printed; then the indent grows,
\* unless the printer has no increase()
Section_enter(ps, p) == IF Indenting(p) THEN increase(ps, p, DefaultBy) ELSE ps

\* a Section that forgets the indent when it is left
Section_exit_noop(ps, p) == ps

\* Section.__exit__, whatever the body did
Section_exit(ps, p) == IF Indenting(p) THEN decrease(ps, p, DefaultBy) ELSE ps

\* -------------------------------------------------------------------- run

\* what the spawned process does: its exit code, and whether it wrote output
Envs ==
    { [exit |-> 0, output |-> FALSE],
      [exit |-> 0, output |-> TRUE],
      [exit |-> 1, output |-> TRUE] }

\* the two flags tested in the other order
SelectRunfunc_iter_first(runfunc, background, line_iterator) ==
    IF ~runfunc
    THEN IF line_iterator THEN "line_iterator"
         ELSE IF background THEN "background"
         ELSE "default"
    ELSE "runfunc"

\* how to run this command: runfunc if given, else background before
\* line_iterator before the default
SelectRunfunc(runfunc, background, line_iterator) ==
    IF ~runfunc
    THEN IF background THEN "background"
         ELSE IF line_iterator THEN "line_iterator"
         ELSE "default"
    ELSE "runfunc"

\* The call of the selected strategy.  bash(...) waits for the process and
\* raises ErrorReturnCode on a non-zero exit; with _bg or _iter_noblock it
\* returns a handle at once.  A caller's runfunc raises or returns as it likes.
Invoke(strategy, combine_out_err, env) ==
    CASE strategy = "background" ->
            [raised |-> "none", result |-> "handle",
             err_to_out |-> combine_out_err]
      [] strategy = "line_iterator" ->
            [raised |-> "none", result |-> "handle", err_to_out |-> TRUE]
      [] OTHER ->
            [raised |-> IF env.exit # 0 THEN "ErrorReturnCode" ELSE "none",
             result |-> IF env.exit # 0 THEN "-"
                        ELSE IF env.output THEN "text" ELSE "empty",
             err_to_out |-> combine_out_err]

\* `result and str(result)`: a failure and a non-empty output are shown
Truthy(result) == result \in {"text", "err"}

\* return_bool that leaves err_on_nonzero as the caller set it
err_on_nonzero_kept(return_bool, err_on_nonzero) == err_on_nonzero

\* `if return_bool: err_on_nonzero = False`
err_on_nonzero_of(return_bool, err_on_nonzero) ==
    IF return_bool THEN FALSE ELSE err_on_nonzero

\* `if return_bool: combine_out_err = False`
combine_out_err_of(return_bool, combine_out_err) ==
    IF return_bool THEN FALSE ELSE combine_out_err

\* a run() that never looks at Shims.enabled
UseShims_never(S) == FALSE

\* whether run() hands the command to Shims.run instead of the strategy
UseShims(S) == S.enabled

\* an except clause that always re-raises
Propagates_always(raised, err_on_nonzero) == raised # "none"

\* what is raised out of the try block: a non-zero exit only if err_on_nonzero
Propagates(raised, err_on_nonzero) ==
    /\ raised # "none"
    /\ raised = "ErrorReturnCode" => err_on_nonzero

\* the value run() returns when nothing propagates
ReturnValue(return_bool, nonzero, result) ==
    IF return_bool
    THEN IF nonzero THEN "False" ELSE "True"
    ELSE result

\* The rest of run() once the command was executed, x being what the try
\* block's call raised or returned: the except clause, the end of the
\* [Command] section (ps1 is the indent inside it), the [Output] section and
\* the return.
run_after(o, S, ps1, x) ==
    LET p == o.printer
        err_on_nonzero == err_on_nonzero_of(o.return_bool, o.err_on_nonzero)
        one == PrinterCall(p, S.verbose)
        nonzero == x.raised = "ErrorReturnCode"
        result == IF nonzero THEN "err" ELSE x.result
        raises == Propagates(x.raised, err_on_nonzero)
        ps2 == Section_exit(ps1, p)
        show == /\ ~raises
                /\ ~(o.suppress_output \/ o.line_iterator \/ o.background)
                /\ Truthy(result)
        n == IF show THEN 4 ELSE 2
    IN  [raised   |-> IF raises THEN x.raised ELSE "none",
         ret      |-> IF raises THEN "-"
                      ELSE ReturnValue(o.return_bool, nonzero, result),
         result   |-> result,
         nonzero  |-> nonzero,
         err      |-> n * one.err,
         out      |-> n * one.out,
         sections |-> IF show THEN 2 ELSE 1,
         ps       |-> IF show THEN Section_exit(Section_enter(ps2, p), p)
                      ELSE ps2]

\* run(command, **o) on the state S = [enabled, hasShims, shims, log, ps,
\* verbose], the process doing env: what it raises or returns, what it
\* invoked and printed, and the state it leaves.
run(command, o, env, S) ==
    LET combine_out_err == combine_out_err_of(o.return_bool, o.combine_out_err)
        _runfunc == SelectRunfunc(o.runfunc, o.background, o.line_iterator)
    IN  IF o.dedent /\ command = <<>>
        THEN [raised |-> "IndexError", ret |-> "-", result |-> "-",
              selected |-> _runfunc, invoked |-> "none", calls |-> 0,
              viaShims |-> FALSE, reached |-> FALSE, nonzero |-> FALSE,
              err_to_out |-> "-", err |-> 0, out |-> 0, sections |-> 0,
              shims |-> S.shims, log |-> S.log, ps |-> S.ps,
              popped |-> FALSE, matched |-> FALSE, cmd |-> command]
        ELSE
        LET cmd == IF o.dedent
                   THEN textwrap_dedent(IF command[1] = NL THEN Tail(command)
                                        ELSE command)
                   ELSE command
            ps1 == Section_enter(S.ps, o.printer)
        IN  IF ~UseShims(S)
            THEN CHOOSE r \in
                    { [selected |-> _runfunc, invoked |-> _runfunc,
                       calls |-> 1, viaShims |-> FALSE, reached |-> TRUE,
                       err_to_out |-> x.err_to_out, shims |-> S.shims,
                       log |-> S.log, popped |-> FALSE, matched |-> FALSE,
                       cmd |-> cmd]
                      @@ run_after(o, S, ps1, x) :
                      x \in {Invoke(_runfunc, combine_out_err, env)} } : TRUE
            ELSE CHOOSE r \in
                    { [selected |-> _runfunc, invoked |-> "none",
                       calls |-> 0, viaShims |-> TRUE, reached |-> TRUE,
                       err_to_out |-> "-", shims |-> x.shims,
                       log |-> x.log, popped |-> x.popped,
                       matched |-> x.matched, cmd |-> cmd]
                      @@ run_after(o, S, ps1, x) :
                      x \in {Shims_run(S.hasShims, S.shims, S.log, cmd)} } : TRUE

\* ---------------------------------------------------------------- actions

\* the program's state as run() reads it
State ==
    [enabled |-> enabled, hasShims |-> hasShims, shims |-> shims, log |-> log,
     ps |-> [indent |-> indent, own |-> own], verbose |-> verbose]

\* a call of run(command, **opts), the process doing env
Run(command, env) ==
    /\ \E r \in {run(command, opts, env, State)} :
           /\ (r.viaShims /\ ~r.popped) => misses < MaxMisses
           /\ shims' = r.shims
           /\ log' = r.log
           /\ indent' = r.ps.indent
           /\ own' = r.ps.own
           /\ pops' = IF r.popped THEN pops + 1 ELSE pops
           /\ misses' = IF r.viaShims /\ ~r.popped THEN misses + 1 ELSE misses
           /\ hits' = IF r.matched THEN Append(hits, r.cmd) ELSE hits
           /\ last' = [op |-> "run", raised |-> r.raised, ret |-> r.ret,
                       result |-> r.result,
                       selected |-> r.selected, invoked |-> r.invoked,
                       calls |-> r.calls, viaShims |-> r.viaShims,
                       reached |-> r.reached, nonzero |-> r.nonzero,
                       err_to_out |-> r.err_to_out, err |-> r.err,
                       out |-> r.out, sections |-> r.sections,
                       printer |-> opts.printer, from |-> indent,
                       touched |-> r.shims # shims \/ r.log # log]
    /\ UNCHANGED <<enabled, hasShims, regs, verbose, stack, opts>>

\* PrintContext.__init__ with a cli_args whose verbose flag is v
NewContext(v) ==
    /\ verbose' = v
    /\ last' = [op |-> "init", verbose |-> v]
    /\ UNCHANGED <<enabled, hasShims, shims, log, indent, own, stack, opts,
                   regs, pops, misses, hits>>

\* a call of printer p
CallPrinter(p) ==
    /\ last' = [op |-> "print", printer |-> p,
                err |-> PrinterCall(p, verbose).err,
                out |-> PrinterCall(p, verbose).out]
    /\ UNCHANGED <<enabled, hasShims, shims, log, indent, own, verbose, stack,
                   opts, regs, pops, misses, hits>>

\* `with Section(p, header):` is entered
SectionEnter(p, header) ==
    /\ Len(stack) < MaxDepth
    /\ LET ps == Section_enter([indent |-> indent, own |-> own], p)
           e  == PrinterCall(p, verbose)
       IN  /\ indent' = ps.indent
           /\ own' = ps.own
           /\ last' = [op |-> "enter", printer |-> p, from |-> indent,
                       err |-> IF header THEN e.err ELSE 0,
                       out |-> IF header THEN e.out ELSE 0]
    /\ stack' = <<[printer |-> p, entry |-> indent]>> \o stack
    /\ UNCHANGED <<enabled, hasShims, shims, log, verbose, opts,
                   regs, pops, misses, hits>>

\* How a with block is left, as __exit__ is told: with no exception (the body
\* ended or returned early) or with the exception the body raised.
Exits == {"None", "Exception"}

\* the innermost Section is left
SectionExit(how) ==
    /\ stack # <<>>
    /\ LET p  == Head(stack).printer
           ps == Section_exit([indent |-> indent, own |-> own], p)
       IN  /\ indent' = ps.indent
           /\ own' = ps.own
           /\ last' = [op |-> "exit", printer |-> p, how |-> how,
                       from |-> indent, entry |-> Head(stack).entry]
    /\ stack' = Tail(stack)
    /\ UNCHANGED <<enabled, hasShims, shims, log, verbose, opts,
                   regs, pops, misses, hits>>

\* the amounts passed to increase() and decrease()
Bys == {0, 1, DefaultBy}

\* the call before this one, for the record of two calls in a row
Brief(l) ==
    IF l.op \in {"increase", "decrease"}
    THEN [op |-> l.op, printer |-> l.printer, by |-> l.by, from |-> l.from]
    ELSE [op |-> l.op]

\* a direct call of p.increase(by)
Increase(p, by) ==
    /\ indent + by <= MaxIndent
    /\ LET ps == increase([indent |-> indent, own |-> own], p, by)
       IN  /\ indent' = ps.indent
           /\ own' = ps.own
    /\ last' = [op |-> "increase", printer |-> p, by |-> by, from |-> indent,
                prev |-> Brief(last)]
    /\ UNCHANGED <<enabled, hasShims, shims, log, verbose, stack, opts,
                   regs, pops, misses, hits>>

\* a direct call of p.decrease(by)
Decrease(p, by) ==
    /\ LET ps == decrease([indent |-> indent, own |-> own], p, by)
       IN  /\ indent' = ps.indent
           /\ own' = ps.own
    /\ last' = [op |-> "decrease", printer |-> p, by |-> by, from |-> indent,
                prev |-> Brief(last)]
    /\ UNCHANGED <<enabled, hasShims, shims, log, verbose, stack, opts,
                   regs, pops, misses, hits>>

\* --------------------------------------------------------- specifications

\* run()'s defaults
DefaultOpts ==
    [runfunc |-> FALSE, printer |-> "default", return_bool |-> FALSE,
     dedent |-> TRUE, err_on_nonzero |-> TRUE, suppress_output |-> FALSE,
     line_iterator |-> FALSE, background |-> FALSE, combine_out_err |-> TRUE]

\* every combination of run()'s flags, printing through the default printer
AllOpts ==
    [runfunc : BOOLEAN, printer : {"default"}, return_bool : BOOLEAN,
     dedent : BOOLEAN, err_on_nonzero : BOOLEAN, suppress_output : BOOLEAN,
     line_iterator : BOOLEAN, background : BOOLEAN, combine_out_err : BOOLEAN]

\* every printer, with every combination of the flags that decide what run()
\* prints
FacadeOpts ==
    [runfunc : {FALSE}, printer : Printers, return_bool : BOOLEAN,
     dedent : {TRUE}, err_on_nonzero : BOOLEAN, suppress_output : BOOLEAN,
     line_iterator : BOOLEAN, background : BOOLEAN, combine_out_err : {TRUE}]

\* the printers Sections are entered with: one that indents, one that does not
SectionPrinters == {"default", "print"}

\* those printers, with every combination of the flags that decide which
\* sections run() enters and what it raises
SectionOpts ==
    [runfunc : {FALSE}, printer : SectionPrinters, return_bool : BOOLEAN,
     dedent : {TRUE}, err_on_nonzero : BOOLEAN, suppress_output : BOOLEAN,
     line_iterator : {FALSE}, background : {FALSE}, combine_out_err : {TRUE}]

\* the state once the module is imported
InitWith(O) ==
    /\ enabled = FALSE
    /\ hasShims = FALSE
    /\ shims = <<>>
    /\ log = <<>>
    /\ indent = 0
    /\ own = [p \in Printers |-> Unset]
    /\ verbose = TRUE
    /\ stack = <<>>
    /\ opts \in O
    /\ last = [op |-> "import"]
    /\ regs = <<>>
    /\ pops = 0
    /\ misses = 0
    /\ hits = <<>>

Init == InitWith(AllOpts)

\* run() with the shim layer switched on and off
Next ==
    \/ \E reset \in BOOLEAN : Enable(reset)
    \/ Disable
    \/ \E s \in ShimSet : Expect(<<s>>, TRUE, MaxRunExpect)
    \/ \E c \in Commands, env \in Envs : Run(c, env)

Spec == Init /\ [][Next]_vars

ShimInit == InitWith({DefaultOpts})

\* the shim layer driven directly by a test
ShimNext ==
    \/ \E reset \in BOOLEAN : Enable(reset)
    \/ Disable
    \/ \E s \in ShimSet : Expect(<<s>>, TRUE, MaxExpect)
    \/ \E it \in ShimLists : Expect(it, FALSE, MaxExpect)
    \/ \E c \in Commands : ShimsRun(c)

ShimSpec == ShimInit /\ [][ShimNext]_vars

IndentInit == InitWith({DefaultOpts})

\* printers' increase() and decrease() called directly
IndentNext ==
    \/ \E p \in {q \in Printers : Indenting(q)}, by \in Bys : Increase(p, by)
    \/ \E p \in {q \in Printers : Indenting(q)}, by \in Bys : Decrease(p, by)

IndentSpec == IndentInit /\ [][IndentNext]_vars

PrintInit == InitWith(FacadeOpts)

\* the printers, and the Sections and run() calls that print through them
PrintNext ==
    \/ \E v \in BOOLEAN : NewContext(v)
    \/ \E p \in Printers : CallPrinter(p)
    \/ \E p \in Printers, header \in BOOLEAN : SectionEnter(p, header)
    \/ \E how \in Exits : SectionExit(how)
    \/ \E c \in Commands, env \in Envs : Run(c, env)

PrintSpec == PrintInit /\ [][PrintNext]_vars

SectionInit == InitWith(SectionOpts)

\* Sections and run() calls nested in Sections, with and without shims
SectionNext ==
    \/ \E p \in SectionPrinters, header \in BOOLEAN : SectionEnter(p, header)
    \/ \E how \in Exits : SectionExit(how)
    \/ \E reset \in BOOLEAN : Enable(reset)
    \/ Disable
    \/ \E s \in ShimSet : Expect(<<s>>, TRUE, MaxRunExpect)
    \/ \E c \in Commands, env \in Envs : Run(c, env)

SectionSpec == SectionInit /\ [][SectionNext]_vars

\* ------------------------------------------------------------- properties

RECURSIVE Reverse(_)
Reverse(q) == IF q = <<>> THEN <<>> ELSE Append(Reverse(Tail(q)), Head(q))

\* C1: with return_bool=True, whatever the other options and whether or not
\* shims are enabled, run() never raises the non-zero exit its command or shim
\* handler reports, and what it returns is a boolean: False when a non-zero
\* exit was reported, True when the execution succeeded.
C1_ReturnBoolNeverRaises ==
    (last.op = "run" /\ opts.return_bool) =>
        /\ last.raised # "ErrorReturnCode"
        /\ last.nonzero => (last.raised = "none" /\ last.ret = "False")
        /\ (last.raised = "none" /\ ~last.nonzero) => last.ret = "True"
        /\ last.raised = "none" => last.ret \in {"True", "False"}

\* a run(return_bool=True, err_on_nonzero=True) whose command failed gave False
C1_Witness ==
    /\ last.op = "run"
    /\ opts.return_bool
    /\ opts.err_on_nonzero
    /\ last.nonzero
    /\ last.raised = "none"
    /\ last.ret = "False"

\* C2: with return_bool unset, a non-zero exit propagates as the exception
\* when err_on_nonzero is set, and no value is returned; when it is unset
\* nothing is raised and the failure object itself is returned.  On success the
\* captured result is returned.
C2_NonzeroWithoutReturnBool ==
    (last.op = "run" /\ ~opts.return_bool) =>
        /\ (last.nonzero /\ opts.err_on_nonzero) =>
               (last.raised = "ErrorReturnCode" /\ last.ret = "-")
        /\ (last.nonzero /\ ~opts.err_on_nonzero) =>
               (last.raised = "none" /\ last.ret = "err")
        /\ (~last.nonzero /\ last.raised = "none") =>
               (last.ret = last.result /\ last.ret \notin {"err", "-"})

\* a run(err_on_nonzero=False) whose command failed returned the failure
C2_Witness ==
    /\ last.op = "run"
    /\ ~opts.return_bool
    /\ ~opts.err_on_nonzero
    /\ last.nonzero
    /\ last.raised = "none"
    /\ last.ret = "err"

\* C3 as stated: the n-th Shims.run since the last reset, counting every call,
\* is checked against the n-th registered shim.
C3_NthRunNthShim ==
    (last.op = "Shims.run" /\ last.r.popped) =>
        /\ pops + misses \in 1..Len(regs)
        /\ last.r.shim = regs[pops + misses]

\* C3, amended: expectations are consumed in the order they were registered.
\* The queue holds the registered shims not yet consumed, the oldest at its
\* right end; the n-th Shims.run since the last reset that finds a shim in
\* the queue is checked against the n-th registered shim; and when the command
\* does not match that shim's pattern, Mismatch is raised with a message
\* naming the pattern and the command, even if a later expectation matches.
C3_Fifo ==
    /\ hasShims => shims = Reverse(SubSeq(regs, pops + 1, Len(regs)))
    /\ (last.op = "Shims.run" /\ last.r.popped) =>
           /\ pops \in 1..Len(regs)
           /\ last.r.shim = regs[pops]
           /\ IF Shim_match(regs[pops], last.cmd)
              THEN last.r.raised # "Mismatch"
              ELSE /\ last.r.raised = "Mismatch"
                   /\ last.r.message = [expected |-> regs[pops].cmd_regex,
                                        got |-> last.cmd]

\* the second call that popped was refused although the next expectation in
\* the queue matches its command
C3_Witness ==
    /\ last.op = "Shims.run"
    /\ last.r.popped
    /\ pops = 2
    /\ last.r.raised = "Mismatch"
    /\ shims # <<>>
    /\ Shim_match(shims[Len(shims)], last.cmd)

\* C4: the shim layer starts disabled, enable() switches it on (emptying the
\* queue and the log when reset is true) and disable() switches it off; while
\* it is enabled a run() that gets to executing its command hands it to
\* Shims.run and invokes no strategy, and while it is disabled run() leaves the
\* queue and the log alone.
C4_ShimLayer ==
    /\ last.op = "import" => ~enabled
    /\ last.op = "enable" =>
           (enabled /\ (last.reset => (hasShims /\ shims = <<>> /\ log = <<>>)))
    /\ last.op = "disable" => ~enabled
    /\ (last.op = "run" /\ enabled) =>
           /\ last.invoked = "none"
           /\ last.calls = 0
           /\ last.reached => last.viaShims
    /\ (last.op = "run" /\ ~enabled) =>
           /\ ~last.viaShims
           /\ ~last.touched
           /\ last.reached => (last.invoked = last.selected /\ last.calls = 1)

\* with shims enabled a run() given a runfunc went to the queue instead
C4_Witness ==
    /\ last.op = "run"
    /\ enabled
    /\ opts.runfunc
    /\ last.viaShims
    /\ last.touched
    /\ last.invoked = "none"

\* C5 as stated: Shims.run on an empty queue fails with an assertion failure
\* and runs no handler.
C5_EmptyQueueAsserts ==
    (last.op = "Shims.run" /\ hasShims /\ ~last.r.popped) =>
        /\ last.r.raised = "AssertionError"
        /\ last.r.calls = 0

\* C5, amended: Shims.run on an empty queue fails with the IndexError of the
\* deque's pop; it runs no handler, returns nothing, and leaves the queue
\* empty and the log as it was.
C5_EmptyQueueIndexError ==
    (last.op = "Shims.run" /\ hasShims /\ ~last.r.popped) =>
        /\ last.r.raised = "IndexError"
        /\ last.r.calls = 0
        /\ last.r.result = "-"
        /\ ~last.r.matched
        /\ shims = <<>>
        /\ log = hits

\* Shims.run was called after every expectation had been consumed
C5_Witness ==
    /\ last.op = "Shims.run"
    /\ hasShims
    /\ ~last.r.popped
    /\ pops > 0
    /\ last.r.raised = "IndexError"

\* C6: the indent is one value shared by all printers, never negative, and
\* increase(by) followed by decrease(by) gives back the indent there was,
\* whichever printers make the two calls.
C6_SharedClampedIndent ==
    LET ps == [indent |-> indent, own |-> own]
        IP == {p \in Printers : Indenting(p)}
    IN  /\ indent >= 0
        /\ \A p \in IP, q \in IP : SelfIndent(ps, p) = SelfIndent(ps, q)
        /\ \A p \in IP, q \in IP, by \in Bys :
               decrease(increase(ps, p, by), q, by) = ps
        /\ (/\ last.op = "decrease"
            /\ last.prev.op = "increase"
            /\ last.prev.by = last.by) => indent = last.prev.from

\* one printer increased a non-zero indent, another decreased it by as much
C6_Witness ==
    /\ last.op = "decrease"
    /\ last.prev.op = "increase"
    /\ last.prev.by = last.by
    /\ last.by = DefaultBy
    /\ last.prev.printer # last.printer
    /\ last.prev.from > 0
    /\ indent = last.prev.from

\* C7: when a Section is left, however its body ended, the indent is the one
\* it was entered at; a run() call leaves the indent as it found it, whether
\* it returns or raises; entering and leaving a Section of a printer without
\* increase() and decrease() changes nothing.
C7_IndentBalanced ==
    /\ last.op = "exit" => indent = last.entry
    /\ last.op = "run" => indent = last.from
    /\ (last.op \in {"enter", "exit"} /\ ~Indenting(last.printer)) =>
           indent = last.from

\* two Sections deep, a run() through an indenting printer raised Mismatch
C7_Witness ==
    /\ last.op = "run"
    /\ last.raised = "Mismatch"
    /\ Indenting(opts.printer)
    /\ Len(stack) = 2
    /\ last.from = 2 * DefaultBy
    /\ indent = last.from

\* C8: without a runfunc, run() selects the default strategy when neither
\* line_iterator nor background is asked for, line-iterator or background when
\* only that one is, and background when both are; it invokes the selected
\* strategy and no other, at most once.
C8_OneStrategy ==
    (last.op = "run" /\ ~opts.runfunc) =>
        /\ (~opts.line_iterator /\ ~opts.background) => last.selected = "default"
        /\ (opts.line_iterator /\ ~opts.background) =>
               last.selected = "line_iterator"
        /\ (~opts.line_iterator /\ opts.background) =>
               last.selected = "background"
        /\ (opts.line_iterator /\ opts.background) =>
               last.selected = "background"
        /\ last.calls <= 1
        /\ last.invoked \in {"none", last.selected}
        /\ last.calls = 1 <=> last.invoked # "none"

\* both flags given: the background strategy ran, once
C8_Witness ==
    /\ last.op = "run"
    /\ ~opts.runfunc
    /\ opts.line_iterator
    /\ opts.background
    /\ last.invoked = "background"
    /\ last.calls = 1

\* C9: with the verbosity flag unset nothing is written to stderr by the
\* Verbose printer nor through IO's verbose facade (its printer, its sections,
\* its runner's framing), while the info printer always writes.
C9_VerboseNeedsFlag ==
    /\ (/\ last.op \in {"print", "enter", "run"}
        /\ last.printer \in {"default", "verbose"}
        /\ ~verbose) => last.err = 0
    /\ (last.op = "print" /\ last.printer = "info") => last.err = 1

\* C10 as stated: the queue length is the number of shims registered minus
\* the number of Shims.run calls made, and the log is the matched commands.
C10_LengthMinusCalls ==
    /\ hasShims => Len(shims) = Len(regs) - (pops + misses)
    /\ log = hits

\* C10, amended: every Shims.run that finds a shim in the queue removes
\* exactly one, matched or not, so the queue length is the number of shims
\* registered minus the number of such calls (a call on an empty queue removes
\* nothing); the log is the matched commands in call order.
C10_Consumption ==
    /\ hasShims => Len(shims) = Len(regs) - pops
    /\ log = hits
    /\ (last.op = "Shims.run" /\ last.r.raised = "Mismatch") => last.r.popped

\* after a match and a mismatch, one of three expectations is left and one
\* command is logged
C10_Witness ==
    /\ last.op = "Shims.run"
    /\ last.r.raised = "Mismatch"
    /\ pops = 2
    /\ Len(regs) = 3
    /\ Len(shims) = 1
    /\ Len(log) = 1
=============================================================================
